---- MODULE Spec2Model ----
(***************************************************************************)
(* Model of pvc4000.py: the PVC4000 driver class (read_raw_data, the       *)
(* pressure property and the static check_sum), run against a scripted     *)
(* transport standing for adafruit_bus_device.I2CDevice.                   *)
(*                                                                         *)
(* Pressures are held in units of half a micron Hg, so that the slope      *)
(* 13.5 of the upper segment is the integer 27: the Python value v is      *)
(* the model value 2*v.                                                    *)
(*                                                                         *)
(* Python slices are 0-based and half-open; sequences here are 1-based,    *)
(* so self._buffer[k] is buffer[k+1].                                      *)
(***************************************************************************)
EXTENDS Integers, Sequences, FiniteSets, TLC

VARIABLES
    op,       \* the method being run: "none", "pressure", "read_raw_data"
    pc,       \* position inside the method
    busHeld,  \* the I2CDevice context manager is entered (bus locked)
    buffer,   \* self._buffer, six bytes, reused across calls
    stub,     \* the transport's script for this call
    log,      \* transport transactions of this call, in order
    failed,   \* the transaction of this call that raised: "none", "write", "read"
    result,   \* how the call ended
    inp,      \* argument of a function applied on its own
    out       \* its value

vars == <<op, pc, busHeld, buffer, stub, log, failed, result, inp, out>>

----------------------------------------------------------------------------
(* Bounds of the model *)

\* largest number of leading invalid frames in a transport script
MaxInvalid == 20

\* half-width of the windows of raw counts sampled pairwise
Window == 6

----------------------------------------------------------------------------
(* Program constants *)

CALIBRATED_DATA_REGISTER == 0
RAW_DATA_REGISTER == 208

----------------------------------------------------------------------------
(* Pure parts of the code *)

RECURSIVE Sum(_)
\* sum(data)
Sum(data) == IF data = <<>> THEN 0 ELSE Head(data) + Sum(Tail(data))

\* buf[lo:hi]
Slice(buf, lo, hi) == SubSeq(buf, lo + 1, hi)

\* PVC4000.check_sum: (-(sum(data) % 256) + 0xff) + 0x01 == csum
check_sum(csum, data) == (-(Sum(data) % 256) + 255) + 1 = csum

\* struct.unpack('>H...', buf) with nfields big-endian unsigned shorts:
\* raises struct.error unless buf holds exactly 2*nfields bytes
unpack(nfields, buf) ==
    IF Len(buf) # 2 * nfields
    THEN [ok |-> FALSE, vals |-> <<>>]
    ELSE [ok |-> TRUE,
          vals |-> [i \in 1..nfields |-> 256 * buf[2 * i - 1] + buf[2 * i]]]

\* a mutant of convert_pressure: the upper segment without its offset
convert_pressure_no_offset(count) ==
    IF count <= 10000 THEN 2 * count ELSE 27 * (count - 10000)

\* pressure, lines 130-133 (value in half microns)
convert_pressure(count) ==
    IF count <= 10000 THEN 2 * count ELSE 27 * (count - 10000) + 20000

\* a mutant of convert_raw: the slope of the upper segment truncated to 13
convert_raw_slope13(count) ==
    IF count <= 10000 THEN 2 * count ELSE 26 * (count - 10000) + 20000

\* read_raw_data, lines 76-79 (value in half microns)
convert_raw(count) ==
    IF count <= 10000 THEN 2 * count ELSE 27 * (count - 10000) + 20000

----------------------------------------------------------------------------
(* The transport script *)

\* the reference the claims compare with: the two's-complement checksum of a
\* four-byte payload, reduced to eight bits
DocCsum(p) == (256 - (Sum(p) % 256)) % 256

\* raw counts 0, 1 and 10001
Payloads == {<<0, 0, 0, 0>>, <<0, 1, 0, 0>>, <<39, 17, 0, 0>>}

\* the frames of payload p whose byte 0 is right, is right only if byte 5 is
\* counted in, or is off by one; byte 5 is 0 or 1
FramesOf(p) ==
    {<<c>> \o p \o <<b5>> :
        c \in {DocCsum(p), (DocCsum(p) + 255) % 256, (DocCsum(p) + 1) % 256},
        b5 \in {0, 1}}

Frames == UNION {FramesOf(p) : p \in Payloads}

\* frame f carries the reference checksum of its bytes 1..4 in byte 0
DocValid(f) == f[1] = DocCsum(SubSeq(f, 2, 5))

\* the big-endian raw count in bytes 1..2 of frame f
Count(f) == 256 * f[2] + f[3]

InvalidFrames == {f \in FramesOf(<<0, 0, 0, 0>>) : ~DocValid(f) /\ f[6] = 0}

Stubs == [nbad : 0..MaxInvalid, bad : InvalidFrames, last : Frames]

\* the frame the transport hands to the k-th readinto of a call
FrameAt(s, k) == IF k <= s.nbad THEN s.bad ELSE s.last

NoStub == [nbad |-> 0, bad |-> <<0, 0, 0, 0, 0, 0>>, last |-> <<0, 0, 0, 0, 0, 0>>]

NoResult == [kind |-> "none", val |-> 0]
Raised(kind) == [kind |-> kind, val |-> 0]
ReturnedNone == [kind |-> "None", val |-> 0]
Returned(v) == [kind |-> "value", val |-> v]

NumReads == Cardinality({i \in 1..Len(log) : log[i][1] = "r"})
NumWrites == Cardinality({i \in 1..Len(log) : log[i][1] = "w"})

----------------------------------------------------------------------------
(* The driver *)

\* a mutant of Release: the bus stays locked when the block is left by an exception
ReleaseOnlyOnReturn(byException) == byException

\* leaving "with self.i2c_device as i2c": the lock state afterwards
Release(byException) == FALSE

\* a mutant of Propagate: the exception is swallowed and the method goes on to read
PropagateSwallowed == "enter_r"

\* where control goes when a transport call raises: no except clause, the
\* exception leaves the method
Propagate == "done"

Register(o) ==
    IF o = "pressure" THEN CALIBRATED_DATA_REGISTER ELSE RAW_DATA_REGISTER

Pure == /\ inp = <<>>
        /\ out = <<>>

\* __init__: bytearray(6), no call made yet
Init ==
    /\ op = "none"
    /\ pc = "idle"
    /\ busHeld = FALSE
    /\ buffer = <<0, 0, 0, 0, 0, 0>>
    /\ stub = NoStub
    /\ log = <<>>
    /\ failed = "none"
    /\ result = NoResult
    /\ Pure

\* a caller reads the pressure property or calls read_raw_data
Call ==
    /\ pc = "idle"
    /\ \E o \in {"pressure", "read_raw_data"}, s \in Stubs :
          /\ op' = o
          /\ stub' = s
    /\ pc' = "enter_w"
    /\ log' = <<>>
    /\ failed' = "none"
    /\ result' = NoResult
    /\ UNCHANGED <<busHeld, buffer, inp, out>>

\* with self.i2c_device as i2c:   (first block)
EnterWrite ==
    /\ pc = "enter_w"
    /\ busHeld' = TRUE
    /\ pc' = "write"
    /\ UNCHANGED <<op, buffer, stub, log, failed, result, inp, out>>

\* i2c.write(register)
Write ==
    /\ pc = "write"
    /\ log' = Append(log, <<"w", Register(op)>>)
    /\ \E ok \in BOOLEAN :
          IF ok
          THEN /\ pc' = "sleep"
               /\ UNCHANGED <<busHeld, failed, result>>
          ELSE /\ busHeld' = Release(TRUE)
               /\ failed' = "write"
               /\ result' = Raised("TransportError")
               /\ pc' = Propagate
    /\ UNCHANGED <<op, buffer, stub, inp, out>>

\* time.sleep(0.05), then the first block is left
Sleep ==
    /\ pc = "sleep"
    /\ busHeld' = Release(FALSE)
    /\ pc' = "enter_r"
    /\ UNCHANGED <<op, buffer, stub, log, failed, result, inp, out>>

\* with self.i2c_device as i2c:   (second block)
EnterRead ==
    /\ pc = "enter_r"
    /\ busHeld' = TRUE
    /\ pc' = "read"
    /\ UNCHANGED <<op, buffer, stub, log, failed, result, inp, out>>

\* i2c.readinto(self._buffer), then the second block is left
Read ==
    /\ pc = "read"
    /\ log' = Append(log, <<"r", 0>>)
    /\ \E ok \in BOOLEAN :
          IF ok
          THEN /\ buffer' = FrameAt(stub, NumReads + 1)
               /\ busHeld' = Release(FALSE)
               /\ pc' = "check"
               /\ UNCHANGED <<failed, result>>
          ELSE /\ busHeld' = Release(TRUE)
               /\ failed' = "read"
               /\ result' = Raised("TransportError")
               /\ pc' = Propagate
               /\ UNCHANGED buffer
    /\ UNCHANGED <<op, stub, inp, out>>

\* pressure, line 121: the argument self[1:5] subscripts the PVC4000 object,
\* which defines no __getitem__: TypeError, before check_sum is called
PressureCheck ==
    /\ pc = "check"
    /\ op = "pressure"
    /\ result' = Raised("TypeError")
    /\ pc' = "done"
    /\ UNCHANGED <<op, busHeld, buffer, stub, log, failed, inp, out>>

\* read_raw_data, lines 66-71: check_sum over self._buffer[1:6]
RawCheck ==
    /\ pc = "check"
    /\ op = "read_raw_data"
    /\ IF check_sum(buffer[1], Slice(buffer, 1, 6))
       THEN /\ pc' = "unpack"
            /\ UNCHANGED result
       ELSE /\ result' = ReturnedNone
            /\ pc' = "done"
    /\ UNCHANGED <<op, busHeld, buffer, stub, log, failed, inp, out>>

\* read_raw_data, lines 73-79: count from '>H', temp from '>HH' over the same
\* two bytes, then the conversion
RawUnpack ==
    /\ pc = "unpack"
    /\ LET count == unpack(1, Slice(buffer, 1, 3))
           temp == unpack(2, Slice(buffer, 1, 3))
       IN  result' = IF count.ok /\ temp.ok
                     THEN Returned(convert_raw(count.vals[1]))
                     ELSE Raised("struct.error")
    /\ pc' = "done"
    /\ UNCHANGED <<op, busHeld, buffer, stub, log, failed, inp, out>>

\* the method returns or raises to its caller; only self._buffer outlives it
Finish ==
    /\ pc = "done"
    /\ op' = "none"
    /\ pc' = "idle"
    /\ stub' = NoStub
    /\ log' = <<>>
    /\ failed' = "none"
    /\ result' = NoResult
    /\ UNCHANGED <<busHeld, buffer, inp, out>>

Next ==
    \/ Call
    \/ EnterWrite
    \/ Write
    \/ Sleep
    \/ EnterRead
    \/ Read
    \/ PressureCheck
    \/ RawCheck
    \/ RawUnpack
    \/ Finish

Spec == Init /\ [][Next]_vars

----------------------------------------------------------------------------
(* check_sum applied on its own to a checksum byte and a four-byte payload *)

ByteSamples == {0, 1, 128, 255}

CheckSumInputs ==
    [csum : 0..255,
     data : {<<a, b, c, d>> : a \in ByteSamples, b \in ByteSamples,
                              c \in ByteSamples, d \in ByteSamples}]

Quiet ==
    /\ op = "none"
    /\ busHeld = FALSE
    /\ buffer = <<0, 0, 0, 0, 0, 0>>
    /\ stub = NoStub
    /\ log = <<>>
    /\ failed = "none"
    /\ result = NoResult

InitCheckSum ==
    /\ Quiet
    /\ pc = "check_sum"
    /\ inp \in CheckSumInputs
    /\ out = <<>>

ApplyCheckSum ==
    /\ pc = "check_sum"
    /\ out' = check_sum(inp.csum, inp.data)
    /\ pc' = "check_sum_ret"
    /\ UNCHANGED <<op, busHeld, buffer, stub, log, failed, result, inp>>

NextCheckSum == ApplyCheckSum

SpecCheckSum == InitCheckSum /\ [][NextCheckSum]_vars

----------------------------------------------------------------------------
(* The two conversions applied on their own to raw counts *)

MaxCount == 65535

CountSamples ==
    (0..Window) \cup ((10000 - Window)..(10000 + Window))
                \cup ((MaxCount - Window)..MaxCount)

\* the counts paired with a: itself, its successor and, for a sampled count,
\* every sampled count
PairedWith(a) ==
    ({a, a + 1} \cap (0..MaxCount))
        \cup (IF a \in CountSamples THEN CountSamples ELSE {})

InitConvert ==
    /\ Quiet
    /\ pc = "convert"
    /\ \E a \in 0..MaxCount : \E b \in PairedWith(a) : inp = <<a, b>>
    /\ out = <<>>

ApplyConvert ==
    /\ pc = "convert"
    /\ out' = [p |-> convert_pressure(inp[1]),
               q |-> convert_pressure(inp[2]),
               r |-> convert_raw(inp[1])]
    /\ pc' = "convert_ret"
    /\ UNCHANGED <<op, busHeld, buffer, stub, log, failed, result, inp>>

NextConvert == ApplyConvert

SpecConvert == InitConvert /\ [][NextConvert]_vars

----------------------------------------------------------------------------
(* Claims *)

\* C1: check_sum(C, P) is true exactly when C = (256 - (sum(P) mod 256)) mod 256,
\* for every checksum byte C and four-byte payload P; so [0,0,0,0] is valid
\* with checksum 0 and [1,0,0,0] with checksum 255.
C1_CheckSumIff ==
    pc = "check_sum_ret" => (out <=> (inp.csum = DocCsum(inp.data)))

\* a call of pressure that the transport let through
PressureDone == pc = "done" /\ op = "pressure" /\ failed = "none"

\* C2: with N < 20 invalid frames followed by a valid one, a pressure
\* acquisition returns the pressure decoded from the valid frame after exactly
\* N + 1 frame reads.
C2_RetryUntilValid ==
    (PressureDone /\ stub.nbad < 20 /\ DocValid(stub.last))
        => /\ result = Returned(convert_pressure(Count(stub.last)))
           /\ NumReads = stub.nbad + 1

\* C3: with 20 invalid frames in a row, a pressure acquisition stops after the
\* 20th read and returns its explicit failure result, never a reading.
C3_FailAfterTwenty ==
    (PressureDone /\ stub.nbad >= 20)
        => /\ NumReads = 20
           /\ result = ReturnedNone

\* C4: a frame whose byte 0 is the checksum of its bytes 1..4, fed through the
\* pressure acquisition, comes back as the conversion of 256*frame[1] + frame[2].
C4_RoundTrip ==
    (PressureDone /\ DocValid(buffer))
        => result = Returned(convert_pressure(Count(buffer)))

\* C5: the conversion of a raw count c is c for c <= 10000 and
\* 13.5 * (c - 10000) + 10000 above, in pressure and in read_raw_data alike
\* (values in half microns: 2*c, and 27 * (c - 10000) + 20000).
C5_Piecewise ==
    pc = "convert_ret" =>
        LET c == inp[1]
        IN  /\ c <= 10000 => out.p = c + c /\ out.r = c + c
            /\ c > 10000 => /\ out.p - 20000 = 27 * (c - 10000)
                            /\ out.r - 20000 = 27 * (c - 10000)

C5_Witness ==
    /\ pc = "convert_ret"
    /\ inp[1] = MaxCount
    /\ out.r = 1519445

\* C6: in a pressure acquisition the register-select write of address 0x00
\* happens exactly once and before every frame read, and a frame that fails
\* the checksum is followed by another read without a second write.
C6_WriteOnceThenReread ==
    PressureDone
        => /\ log[1] = <<"w", 0>>
           /\ NumWrites = 1
           /\ ~DocValid(FrameAt(stub, 1)) => NumReads >= 2

\* C7: a transport failure in the write or in a read ends the call at once
\* with a transport error, which is neither the checksum-failure result nor a
\* reading, and nothing is written or read after it.
C7_TransportErrorEndsCall ==
    /\ failed = "write" =>
          /\ pc = "done"
          /\ result = Raised("TransportError")
          /\ log = << <<"w", Register(op)>> >>
    /\ failed = "read" =>
          /\ pc = "done"
          /\ result = Raised("TransportError")
          /\ log = << <<"w", Register(op)>>, <<"r", 0>> >>
    /\ result.kind = "TransportError" => failed # "none"
    /\ result.kind \in {"None", "value"} => failed = "none"

C7_Witness ==
    /\ pc = "done"
    /\ op = "pressure"
    /\ failed = "read"

\* C8: the bus is held exactly while a transport transaction is under way, and
\* is free once a call has ended, however it ended.
C8_BusScoped ==
    /\ busHeld <=> pc \in {"write", "sleep", "read"}
    /\ pc \in {"idle", "done"} => ~busHeld

C8_Witness ==
    /\ pc = "done"
    /\ result.kind = "TransportError"
    /\ NumReads = 1
    /\ ~busHeld

\* C9: the conversion never decreases as the raw count grows, and
\* convert(10000) = 10000, convert(10001) = 10013.5 (20000 and 20027 half microns).
C9_MonotoneAnchored ==
    pc = "convert_ret" =>
        /\ inp[1] <= inp[2] => out.p <= out.q
        /\ inp[1] = 10000 => out.p = 20000
        /\ inp[1] = 10001 => out.p = 20027

C9_Witness ==
    /\ pc = "convert_ret"
    /\ inp = <<10000, 10001>>
    /\ out.p < out.q

\* the frame read by the call was taken as good
Accepted ==
    \/ pc = "unpack"
    \/ pc = "done" /\ result.kind \in {"value", "struct.error"}

\* C10: in pressure and in read_raw_data a frame is accepted exactly when its
\* byte 0 is the checksum of its bytes 1..4, whatever byte 5 holds, and is
\* never decoded otherwise.
C10_AcceptIffChecksum ==
    /\ Accepted => DocValid(buffer)
    /\ (pc = "done" /\ failed = "none") => (Accepted <=> DocValid(buffer))

====
